---- MODULE Spec2Model ----
(***************************************************************************)
(* Model of the remote-session lifecycle manager of devin-issue-resolver:  *)
(* the request handlers of backend/app/routes/devin.py, the store of       *)
(* backend/app/db.py and the pollers and reply parsers of                  *)
(* backend/app/devin_client.py.                                            *)
(*                                                                         *)
(* Every database statement and every remote call is one atomic step; the  *)
(* request threads and the poller threads interleave between them.         *)
(***************************************************************************)
EXTENDS Integers, Sequences, FiniteSets, TLC

\* ------------------------------------------------------------------ bounds
MaxSessions == 2   \* create_session succeeds at most this many times
MaxConc     == 2   \* request handlers running at the same time
MaxMsgs     == 3   \* longest transcript given to the parsers
Excess      == 2   \* confidence integers range over (1-Excess)..(10+Excess)
LiveConc    == 1   \* request handlers at a time when the threads are scheduled fairly

Keys     == {"k1"}
Slots    == 1..MaxConc
LiveSlots == 1..LiveConc
Sessions == 1..MaxSessions

\* ------------------------------------------------------- Python / SQL values
\* A Python value: None, an int, a bool, a float, a str (a text) or a list.
PyNone     == [t |-> "none",  n |-> 0, s |-> <<>>]
PyInt(i)   == [t |-> "int",   n |-> i, s |-> <<>>]
PyBool(b)  == [t |-> "bool",  n |-> b, s |-> <<>>]
PyFloat(i) == [t |-> "float", n |-> i, s |-> <<>>]
PyStr(x)   == [t |-> "str",   n |-> 0, s |-> x]
PyList     == [t |-> "list",  n |-> 1, s |-> <<>>]

\* Python truth value: None, "", 0, False are false; a non-empty list is true.
Truthy(v) ==
    CASE v.t = "none" -> FALSE
      [] v.t = "str"  -> v.s # <<>>
      [] v.t = "list" -> TRUE
      [] OTHER        -> v.n # 0

\* sqlite3 binds None, int, float and str parameters; a list raises.
Bindable(v) == v.t # "list"

\* NULL of a TEXT column that holds a status, and of a session id column.
NULL      == "null"
NoSession == 0

\* A character group of a message text.  "word" is prose, "object" a JSON
\* object with the three keys the parsers read, "array" any other JSON
\* document; the other groups are white space and markdown fence pieces.
Tok(name)       == [tok |-> name, plan |-> PyNone, conf |-> PyNone, pr |-> PyNone]
Obj(p, c, u)    == [tok |-> "object", plan |-> p, conf |-> c, pr |-> u]
Word(w)         == Tok(w)
IsSpace(x)      == x.tok \in {"ws", "nl"}
IsJson(x)       == x.tok \in {"object", "array"}

\* The texts the pollers write themselves.
NoPlanText  == <<Word("No plan was generated.")>>
StoppedText == <<Word("Session was stopped before completion.")>>
ErrorText   == <<Word("Error during analysis")>>

\* ------------------------------------------------------------------- store
VARIABLES
    store,        \* the rows of table devin_analyses
    nextId,       \* AUTOINCREMENT counter of the table
    nextSession,  \* remote sessions created so far
    termCalls,    \* per session: number of terminate_session calls made
    calls,        \* per request slot: the handler invocation running in it
    lastResp,     \* the response sent by the step just taken, if it sent one
    pollers,      \* per session: the polling thread started for it
    hist,         \* per key: the analysis statuses stored since the last start
    lastCall,     \* the get_session / terminate_session call of the step just taken
    pMsgs,        \* parser check: the transcript
    pOut,         \* parser check: the results of the two parsers
    pPc           \* parser check: position

vars == <<store, nextId, nextSession, termCalls, calls, lastResp, pollers, hist,
          lastCall, pMsgs, pOut, pPc>>

\* CREATE TABLE devin_analyses plus the four fix columns: a fresh row.
\* created_at DEFAULT CURRENT_TIMESTAMP: the time of the INSERT, told by its
\* AUTOINCREMENT number.
NewRow(id, k) ==
    [id |-> id, key |-> k, session_id |-> NoSession, status |-> "pending",
     plan |-> PyNone, confidence_score |-> PyNone, devin_url |-> NoSession,
     fix_status |-> NULL, fix_session_id |-> NoSession,
     fix_devin_url |-> NoSession, pr_url |-> PyNone, created_at |-> id]
NoRow == NewRow(0, "none")

RowsOf(st, k) == {r \in st : r.key = k}

\* The assignments of an UPDATE / INSERT applied to one row.
SetFields(r, f) == [x \in DOMAIN r |-> IF x \in DOMAIN f THEN f[x] ELSE r[x]]

\* db.get_analysis: SELECT ... fetchone(), None when there is no row.
get_analysis(st, k) ==
    IF RowsOf(st, k) = {} THEN NoRow
    ELSE CHOOSE r \in RowsOf(st, k) : \A q \in RowsOf(st, k) : r.id <= q.id

\* update_analysis as an upsert: a row is inserted when none matches
update_analysis_inserting(st, k, f) ==
    IF RowsOf(st, k) = {} THEN st \cup {SetFields(NewRow(0, k), f)}
    ELSE {IF r.key = k THEN SetFields(r, f) ELSE r : r \in st}

\* db.update_analysis: UPDATE ... WHERE github_url = ? AND issue_id = ?
update_analysis(st, k, f) ==
    {IF r.key = k THEN SetFields(r, f) ELSE r : r \in st}

\* db.delete_analysis
delete_analysis(st, k) == {r \in st : r.key # k}

\* the table without its UNIQUE constraint
UniqueOkUnconstrained(st, k) == TRUE

\* UNIQUE(github_url, issue_id): may a row for k be inserted?
UniqueOk(st, k) == RowsOf(st, k) = {}

\* the INSERT branch of db.upsert_analysis
insert_analysis(st, id, k, f) == st \cup {SetFields(NewRow(id, k), f)}

\* every sqlite parameter of a write can be bound
BindableAll(f) == \A x \in DOMAIN f : x \in {"plan", "confidence_score", "pr_url"} => Bindable(f[x])

\* ----------------------------------------------------------------- parsers
Min(a, b) == IF a < b THEN a ELSE b
Max(a, b) == IF a > b THEN a ELSE b

RECURSIVE LStrip(_)
LStrip(x) == IF x # <<>> /\ IsSpace(Head(x)) THEN LStrip(Tail(x)) ELSE x
RECURSIVE RStrip(_)
RStrip(x) == IF x # <<>> /\ IsSpace(x[Len(x)]) THEN RStrip(SubSeq(x, 1, Len(x) - 1)) ELSE x
\* str.strip()
Strip(x) == RStrip(LStrip(x))

\* first re.sub: drop the opening fence, an optional json tag and white space
SubOpenFence(x) ==
    IF x # <<>> /\ Head(x).tok = "fence"
    THEN LET y == Tail(x)
             z == IF y # <<>> /\ Head(y).tok = "json" THEN Tail(y) ELSE y
         IN  LStrip(z)
    ELSE x

\* second re.sub: drop a closing fence at the end and one newline before it
SubCloseFence(x) ==
    LET y == RStrip(x) IN
    IF y # <<>> /\ y[Len(y)].tok = "fence"
    THEN LET z == SubSeq(y, 1, Len(y) - 1)
         IN  IF z # <<>> /\ z[Len(z)].tok = "nl" THEN SubSeq(z, 1, Len(z) - 1) ELSE z
    ELSE x

\* "Strip markdown code fences if present"
StripFences(text) ==
    LET stripped == Strip(text) IN
    IF stripped # <<>> /\ Head(stripped).tok = "fence"
    THEN SubCloseFence(SubOpenFence(stripped))
    ELSE stripped

\* json.loads: one JSON document, white space around it allowed.
JsonDecodes(x) == Len(Strip(x)) = 1 /\ IsJson(Strip(x)[1])
JsonLoads(x)   == Strip(x)[1]

\* index of the last message whose type is "devin", 0 when there is none
RECURSIVE LastDevin(_, _)
LastDevin(messages, i) ==
    IF i = 0 THEN 0
    ELSE IF messages[i].type = "devin" THEN i ELSE LastDevin(messages, i - 1)

\* the text the parsers go on with (local devin_text after both lookups);
\* messages is not empty
devin_text(messages) ==
    LET i     == LastDevin(messages, Len(messages))
        found == IF i = 0 THEN <<>> ELSE messages[i].message
    IN  IF found = <<>> THEN messages[Len(messages)].message ELSE found

\* isinstance(confidence, int) ... max(1, min(10, confidence))
clamp_confidence(confidence) ==
    IF confidence.t \in {"int", "bool"}
    THEN PyInt(Max(1, Min(10, confidence.n)))
    ELSE PyNone

parse_devin_response(messages) ==
    IF messages = <<>> THEN [plan |-> PyNone, confidence |-> PyNone]
    ELSE IF devin_text(messages) = <<>> THEN [plan |-> PyNone, confidence |-> PyNone]
    ELSE LET stripped == StripFences(devin_text(messages)) IN
         IF JsonDecodes(stripped) /\ JsonLoads(stripped).tok = "object"
         THEN [plan       |-> JsonLoads(stripped).plan,
               confidence |-> clamp_confidence(JsonLoads(stripped).conf)]
         ELSE [plan |-> PyStr(stripped), confidence |-> PyNone]

parse_fix_response(messages) ==
    IF messages = <<>> THEN PyNone
    ELSE IF devin_text(messages) = <<>> THEN PyNone
    ELSE LET stripped == StripFences(devin_text(messages)) IN
         IF JsonDecodes(stripped) /\ JsonLoads(stripped).tok = "object"
         THEN JsonLoads(stripped).pr
         ELSE PyNone

\* ------------------------------------------------------------ parser inputs
ConfInts == (1 - Excess)..(10 + Excess)
ConfVals == {PyNone, PyBool(0), PyBool(1), PyFloat(7), PyStr(<<Word("high")>>)}
            \cup {PyInt(i) : i \in ConfInts}
PlanVals == {PyNone, PyStr(<<>>), PyStr(<<Word("do X")>>), PyList}
PrVals   == {PyNone, PyStr(<<Word("https://github.com/o/r/pull/5")>>), PyList}

GoodDoc  == Obj(PyStr(<<Word("do X")>>), PyInt(7), PyNone)
PrDoc    == Obj(PyNone, PyNone, PyStr(<<Word("https://github.com/o/r/pull/5")>>))
ListDoc  == Obj(PyList, PyInt(7), PyList)
Docs     == {Obj(p, c, PyNone) : p \in PlanVals, c \in ConfVals}
            \cup {Obj(PyNone, PyNone, u) : u \in PrVals}
            \cup {Tok("array")}

Fenced(d) ==
    {<<Tok("fence"), Tok("json"), Tok("nl"), d, Tok("nl"), Tok("fence")>>,
     <<Tok("fence"), Tok("nl"), d, Tok("nl"), Tok("fence")>>,
     <<Tok("ws"), Tok("fence"), Tok("json"), d, Tok("fence"), Tok("nl")>>,
     <<Tok("ws"), d, Tok("nl")>>,
     <<Word("Here is the plan:"), Tok("nl"), d>>}

Texts == {<<>>, <<Word("not json")>>, <<Tok("fence")>>, <<Tok("fence"), Tok("json"), Tok("fence")>>}
         \cup {<<d>> : d \in Docs}
         \cup UNION {Fenced(d) : d \in {GoodDoc, PrDoc, Tok("array")}}

\* the texts of the long transcripts, where the choice of the message counts
SelTexts == {<<>>, <<Word("hello")>>, <<GoodDoc>>, <<PrDoc>>}
Types    == {"devin", "user"}
Msg(ty, x) == [type |-> ty, message |-> x]

RECURSIVE SeqsUpTo(_, _)
SeqsUpTo(S, n) ==
    IF n = 0 THEN {<<>>}
    ELSE SeqsUpTo(S, n - 1) \cup
         {Append(q, m) : q \in {q \in SeqsUpTo(S, n - 1) : Len(q) = n - 1}, m \in S}

Transcripts ==
    SeqsUpTo({Msg(ty, x) : ty \in Types, x \in SelTexts}, MaxMsgs)
    \cup {<<Msg(ty, x)>> : ty \in Types, x \in Texts}

\* the transcripts a polled session carries in the lifecycle specification
FullDoc == Obj(PyStr(<<Word("do X")>>), PyInt(7), PyStr(<<Word("https://github.com/o/r/pull/5")>>))
PollTranscripts ==
    {<<>>, <<Msg("devin", <<FullDoc>>)>>, <<Msg("devin", <<ListDoc>>)>>}

\* ---------------------------------------------------------------- handlers
NoResp   == [op |-> "none", key |-> "none", code |-> 0, session_id |-> NoSession,
             status |-> "none", created |-> FALSE]
IdleCall == [op |-> "none", key |-> "none", pc |-> "idle", sid |-> NoSession,
             existing |-> FALSE]
NoPoller == [kind |-> "none", key |-> "none", pc |-> "none",
             plan |-> PyNone, confidence |-> PyNone, pr_url |-> PyNone,
             exit |-> "none"]
NoCall   == [fn |-> "none", session |-> NoSession, result |-> "none"]
NoHist   == [sid |-> NoSession, seq |-> <<>>]
NoOut    == [text |-> <<>>, plan |-> PyNone, confidence |-> PyNone, pr_url |-> PyNone]

\* the statuses stored for a key since its last start, one entry per change
Observe(h, st) ==
    [k \in Keys |->
        IF RowsOf(st, k) = {} THEN h[k]
        ELSE LET cur == get_analysis(st, k).status IN
             IF h[k].seq # <<>> /\ h[k].seq[Len(h[k].seq)] = cur THEN h[k]
             ELSE [h[k] EXCEPT !.seq = Append(@, cur)]]

\* the response of a handler; created: the handler created a remote session
Resp(op, k, code, sid, status, created) ==
    [op |-> op, key |-> k, code |-> code, session_id |-> sid, status |-> status,
     created |-> created]

\* threading.Thread(target=poll_session | poll_fix_session, ...).start()
start_polling_thread(ps, kind, sid, k) ==
    [ps EXCEPT ![sid] = [NoPoller EXCEPT !.kind = kind, !.key = k, !.pc = "start"]]

ParserIdle == UNCHANGED <<pMsgs, pOut, pPc>>

\* the in-flight test looking at "pending" only
in_flight_pending_only(existing) ==
    existing # NoRow /\ existing.status = "pending"

\* existing and existing["status"] in ("pending", "analyzing")
in_flight(existing) ==
    existing # NoRow /\ existing.status \in {"pending", "analyzing"}

\* existing and existing.get("fix_status") in ("pending", "analyzing")
fix_in_flight(existing) ==
    existing # NoRow /\ existing.fix_status \in {"pending", "analyzing"}

\* analyze arrives in a free slot: the lookup and the early return
AnalyzeRead(c, k) ==
    /\ calls[c].pc = "idle"
    /\ LET existing == get_analysis(store, k) IN
       IF in_flight(existing)
       THEN /\ lastResp' = Resp("analyze", k, 202, existing.session_id, existing.status, FALSE)
            /\ UNCHANGED calls
       ELSE /\ calls' = [calls EXCEPT ![c] = [IdleCall EXCEPT !.op = "analyze", !.key = k, !.pc = "create"]]
            /\ lastResp' = NoResp
    /\ UNCHANGED <<store, nextId, nextSession, termCalls, pollers, hist>>
    /\ lastCall' = NoCall
    /\ ParserIdle

\* analyze: create_session succeeds
AnalyzeCreate(c) ==
    /\ calls[c].op = "analyze" /\ calls[c].pc = "create"
    /\ nextSession < MaxSessions
    /\ nextSession' = nextSession + 1
    /\ calls' = [calls EXCEPT ![c].pc = "upsert_select", ![c].sid = nextSession + 1]
    /\ lastResp' = NoResp
    /\ UNCHANGED <<store, nextId, termCalls, pollers, hist>>
    /\ lastCall' = NoCall
    /\ ParserIdle

\* analyze recording the failed creation in the store before it answers 500
AnalyzeCreateFailRecorded(c) ==
    /\ calls[c].op = "analyze" /\ calls[c].pc = "create"
    /\ calls' = [calls EXCEPT ![c] = IdleCall]
    /\ lastResp' = Resp("analyze", calls[c].key, 500, NoSession, "error", FALSE)
    /\ store' = update_analysis(store, calls[c].key, [status |-> "failed"])
    /\ hist' = Observe(hist, store')
    /\ UNCHANGED <<nextId, nextSession, termCalls, pollers>>
    /\ lastCall' = NoCall
    /\ ParserIdle

\* analyze: create_session raises, the handler answers 500
AnalyzeCreateFail(c) ==
    /\ calls[c].op = "analyze" /\ calls[c].pc = "create"
    /\ calls' = [calls EXCEPT ![c] = IdleCall]
    /\ lastResp' = Resp("analyze", calls[c].key, 500, NoSession, "error", FALSE)
    /\ UNCHANGED <<store, nextId, nextSession, termCalls, pollers, hist>>
    /\ lastCall' = NoCall
    /\ ParserIdle

\* upsert_analysis: the SELECT id
AnalyzeUpsertSelect(c) ==
    /\ calls[c].op = "analyze" /\ calls[c].pc = "upsert_select"
    /\ calls' = [calls EXCEPT ![c].pc = "upsert_write",
                              ![c].existing = (RowsOf(store, calls[c].key) # {})]
    /\ lastResp' = NoResp
    /\ UNCHANGED <<store, nextId, nextSession, termCalls, pollers, hist>>
    /\ lastCall' = NoCall
    /\ ParserIdle

\* analyze resetting the fix lifecycle of the record as well
AnalyzeFieldsClearingFix(sid) ==
    [session_id |-> sid, status |-> "pending", devin_url |-> sid,
     plan |-> PyNone, confidence_score |-> PyNone,
     fix_status |-> NULL, fix_session_id |-> NoSession,
     fix_devin_url |-> NoSession, pr_url |-> PyNone]

\* the values analyze hands to upsert_analysis
AnalyzeFields(sid) ==
    [session_id |-> sid, status |-> "pending", devin_url |-> sid,
     plan |-> PyNone, confidence_score |-> PyNone]

\* upsert_analysis: the UPDATE or the INSERT, then the poller is started and
\* the handler returns; an INSERT that violates UNIQUE raises instead
AnalyzeUpsertWrite(c) ==
    LET k   == calls[c].key
        sid == calls[c].sid
    IN
    /\ calls[c].op = "analyze" /\ calls[c].pc = "upsert_write"
    /\ IF calls[c].existing
       THEN /\ store' = update_analysis(store, k, AnalyzeFields(sid))
            /\ UNCHANGED nextId
            /\ pollers' = start_polling_thread(pollers, "analysis", sid, k)
            /\ lastResp' = Resp("analyze", k, 202, sid, "pending", TRUE)
            /\ hist' = Observe([hist EXCEPT ![k] = [sid |-> sid, seq |-> <<>>]], store')
       ELSE IF UniqueOk(store, k)
       THEN /\ store' = insert_analysis(store, nextId, k, AnalyzeFields(sid))
            /\ nextId' = nextId + 1
            /\ pollers' = start_polling_thread(pollers, "analysis", sid, k)
            /\ lastResp' = Resp("analyze", k, 202, sid, "pending", TRUE)
            /\ hist' = Observe([hist EXCEPT ![k] = [sid |-> sid, seq |-> <<>>]], store')
       ELSE /\ lastResp' = Resp("analyze", k, 500, NoSession, "error", TRUE)
            /\ UNCHANGED <<store, nextId, pollers, hist>>
    /\ calls' = [calls EXCEPT ![c] = IdleCall]
    /\ UNCHANGED <<nextSession, termCalls>>
    /\ lastCall' = NoCall
    /\ ParserIdle

\* fix_issue arrives in a free slot: the lookup and the early return
FixRead(c, k) ==
    /\ calls[c].pc = "idle"
    /\ LET existing == get_analysis(store, k) IN
       IF fix_in_flight(existing)
       THEN /\ lastResp' = Resp("fix", k, 202, existing.fix_session_id, existing.fix_status, FALSE)
            /\ UNCHANGED calls
       ELSE /\ calls' = [calls EXCEPT ![c] = [IdleCall EXCEPT !.op = "fix", !.key = k, !.pc = "create"]]
            /\ lastResp' = NoResp
    /\ UNCHANGED <<store, nextId, nextSession, termCalls, pollers, hist>>
    /\ lastCall' = NoCall
    /\ ParserIdle

\* fix_issue: create_session succeeds
FixCreate(c) ==
    /\ calls[c].op = "fix" /\ calls[c].pc = "create"
    /\ nextSession < MaxSessions
    /\ nextSession' = nextSession + 1
    /\ calls' = [calls EXCEPT ![c].pc = "fix_write", ![c].sid = nextSession + 1]
    /\ lastResp' = NoResp
    /\ UNCHANGED <<store, nextId, termCalls, pollers, hist>>
    /\ lastCall' = NoCall
    /\ ParserIdle

\* fix_issue: create_session raises, the handler answers 500
FixCreateFail(c) ==
    /\ calls[c].op = "fix" /\ calls[c].pc = "create"
    /\ calls' = [calls EXCEPT ![c] = IdleCall]
    /\ lastResp' = Resp("fix", calls[c].key, 500, NoSession, "error", FALSE)
    /\ UNCHANGED <<store, nextId, nextSession, termCalls, pollers, hist>>
    /\ lastCall' = NoCall
    /\ ParserIdle

\* the values fix_issue hands to update_analysis
FixFields(sid) ==
    [fix_session_id |-> sid, fix_status |-> "pending", fix_devin_url |-> sid,
     pr_url |-> PyNone]

\* fix_issue: update_analysis, then the fix poller is started
FixWrite(c) ==
    LET k   == calls[c].key
        sid == calls[c].sid
    IN
    /\ calls[c].op = "fix" /\ calls[c].pc = "fix_write"
    /\ store' = update_analysis(store, k, FixFields(sid))
    /\ pollers' = start_polling_thread(pollers, "fix", sid, k)
    /\ calls' = [calls EXCEPT ![c] = IdleCall]
    /\ lastResp' = Resp("fix", k, 202, sid, "pending", TRUE)
    /\ hist' = Observe(hist, store')
    /\ UNCHANGED <<nextId, nextSession, termCalls>>
    /\ lastCall' = NoCall
    /\ ParserIdle

\* remove_analysis arrives in a free slot: the lookup, 404 when there is no record
RemoveRead(c, k) ==
    /\ calls[c].pc = "idle"
    /\ IF get_analysis(store, k) = NoRow
       THEN /\ lastResp' = Resp("remove", k, 404, NoSession, "error", FALSE)
            /\ UNCHANGED calls
       ELSE /\ calls' = [calls EXCEPT ![c] = [IdleCall EXCEPT !.op = "remove", !.key = k, !.pc = "delete"]]
            /\ lastResp' = NoResp
    /\ UNCHANGED <<store, nextId, nextSession, termCalls, pollers, hist>>
    /\ lastCall' = NoCall
    /\ ParserIdle

\* remove_analysis also ending the pollers of the key
RemoveDeleteCancelling(c) ==
    /\ calls[c].op = "remove" /\ calls[c].pc = "delete"
    /\ store' = delete_analysis(store, calls[c].key)
    /\ hist' = [hist EXCEPT ![calls[c].key] = NoHist]
    /\ calls' = [calls EXCEPT ![c] = IdleCall]
    /\ lastResp' = Resp("remove", calls[c].key, 204, NoSession, "deleted", FALSE)
    /\ pollers' = [s \in Sessions |->
                     IF pollers[s].key = calls[c].key /\ pollers[s].pc \notin {"none", "done"}
                     THEN [pollers[s] EXCEPT !.pc = "done", !.exit = "cancelled"]
                     ELSE pollers[s]]
    /\ UNCHANGED <<nextId, nextSession, termCalls>>
    /\ lastCall' = NoCall
    /\ ParserIdle

\* remove_analysis: the DELETE, 204
RemoveDelete(c) ==
    /\ calls[c].op = "remove" /\ calls[c].pc = "delete"
    /\ store' = delete_analysis(store, calls[c].key)
    /\ hist' = [hist EXCEPT ![calls[c].key] = NoHist]
    /\ calls' = [calls EXCEPT ![c] = IdleCall]
    /\ lastResp' = Resp("remove", calls[c].key, 204, NoSession, "deleted", FALSE)
    /\ UNCHANGED <<nextId, nextSession, termCalls, pollers>>
    /\ lastCall' = NoCall
    /\ ParserIdle

get_analysis_status(st, k) ==
    IF get_analysis(st, k) = NoRow
    THEN Resp("status", k, 200, NoSession, "not_found", FALSE)
    ELSE Resp("status", k, 200, get_analysis(st, k).session_id,
              get_analysis(st, k).status, FALSE)

get_fix_status(st, k) ==
    IF get_analysis(st, k) = NoRow \/ get_analysis(st, k).fix_status = NULL
    THEN Resp("fix_status", k, 200, NoSession, "not_found", FALSE)
    ELSE Resp("fix_status", k, 200, get_analysis(st, k).fix_session_id,
              get_analysis(st, k).fix_status, FALSE)

\* GET status: one lookup, answered at once
StatusRead(k) ==
    /\ lastResp' = get_analysis_status(store, k)
    /\ UNCHANGED <<store, nextId, nextSession, termCalls, calls, pollers, hist>>
    /\ lastCall' = NoCall
    /\ ParserIdle

\* GET fix status: one lookup, answered at once
FixStatusRead(k) ==
    /\ lastResp' = get_fix_status(store, k)
    /\ UNCHANGED <<store, nextId, nextSession, termCalls, calls, pollers, hist>>
    /\ lastCall' = NoCall
    /\ ParserIdle

\* ----------------------------------------------------------------- pollers
\* structured_output.messages if it has any, else session.messages
session_messages(session) ==
    IF session.structured # <<>> THEN session.structured ELSE session.messages

\* the replies get_session can give
SessionReplies ==
    {[status_enum |-> st, structured |-> so, messages |-> ms] :
        st \in {"blocked", "finished"},
        so \in {<<>>, <<Msg("devin", <<FullDoc>>)>>}, ms \in PollTranscripts}
    \cup {[status_enum |-> st, structured |-> <<>>, messages |-> <<>>] :
        st \in {"working", "stopped"}}

PollFrame == lastResp' = NoResp /\ UNCHANGED <<nextId, nextSession, calls>> /\ ParserIdle

\* poll_session: update_analysis(status="analyzing")
PollStart(s) ==
    /\ pollers[s].kind = "analysis" /\ pollers[s].pc = "start"
    /\ store' = update_analysis(store, pollers[s].key, [status |-> "analyzing"])
    /\ hist' = Observe(hist, store')
    /\ pollers' = [pollers EXCEPT ![s].pc = "poll"]
    /\ UNCHANGED termCalls
    /\ lastCall' = NoCall
    /\ PollFrame

\* a transport failure of get_session passing to the outer except clause
PollFetchFailFatal(s) ==
    /\ pollers[s].kind = "analysis" /\ pollers[s].pc = "poll"
    /\ pollers' = [pollers EXCEPT ![s].pc = "except"]
    /\ UNCHANGED <<store, hist, termCalls>>
    /\ lastCall' = [fn |-> "get_session", session |-> s, result |-> "error"]
    /\ PollFrame

\* poll_session: get_session raises RequestException, the loop continues
PollFetchFail(s) ==
    /\ pollers[s].kind = "analysis" /\ pollers[s].pc = "poll"
    /\ UNCHANGED <<store, hist, termCalls, pollers>>
    /\ lastCall' = [fn |-> "get_session", session |-> s, result |-> "error"]
    /\ PollFrame

\* poll_session: get_session answers; the reply is inspected and parsed
PollFetch(s, session) ==
    /\ pollers[s].kind = "analysis" /\ pollers[s].pc = "poll"
    /\ pollers' =
         IF session.status_enum \in {"blocked", "finished"}
         THEN [pollers EXCEPT
                 ![s].plan = parse_devin_response(session_messages(session)).plan,
                 ![s].confidence = parse_devin_response(session_messages(session)).confidence,
                 ![s].pc = "write_completed"]
         ELSE IF session.status_enum = "stopped"
         THEN [pollers EXCEPT ![s].pc = "write_stopped"]
         ELSE pollers
    /\ UNCHANGED <<store, hist, termCalls>>
    /\ lastCall' = [fn |-> "get_session", session |-> s, result |-> session.status_enum]
    /\ PollFrame

\* the values poll_session stores on blocked / finished
CompletedFields(plan, confidence) ==
    [status |-> "completed",
     plan |-> IF Truthy(plan) THEN plan ELSE PyStr(NoPlanText),
     confidence_score |-> confidence]

\* poll_session: update_analysis(status="completed", ...); a parameter that
\* sqlite cannot bind raises and control passes to the except clause
PollWriteCompleted(s) ==
    LET f == CompletedFields(pollers[s].plan, pollers[s].confidence) IN
    /\ pollers[s].kind = "analysis" /\ pollers[s].pc = "write_completed"
    /\ IF BindableAll(f)
       THEN /\ store' = update_analysis(store, pollers[s].key, f)
            /\ pollers' = [pollers EXCEPT ![s].pc = "terminate", ![s].plan = PyNone,
                                              ![s].confidence = PyNone, ![s].pr_url = PyNone]
       ELSE /\ store' = store
            /\ pollers' = [pollers EXCEPT ![s].pc = "except", ![s].plan = PyNone,
                                              ![s].confidence = PyNone, ![s].pr_url = PyNone]
    /\ hist' = Observe(hist, store')
    /\ UNCHANGED termCalls
    /\ lastCall' = NoCall
    /\ PollFrame

\* poll_session: terminate_session(session_id), failures swallowed; return
PollTerminate(s) ==
    /\ pollers[s].kind = "analysis" /\ pollers[s].pc = "terminate"
    /\ termCalls' = [termCalls EXCEPT ![s] = @ + 1]
    /\ pollers' = [pollers EXCEPT ![s].pc = "done", ![s].exit = "completed"]
    /\ UNCHANGED <<store, hist>>
    /\ \E result \in {"ok", "error"} :
          lastCall' = [fn |-> "terminate_session", session |-> s, result |-> result]
    /\ PollFrame

\* the values poll_session stores on stopped
StoppedFields == [status |-> "failed", plan |-> PyStr(StoppedText)]

\* the stopped branch without its return: the loop goes on
PollWriteStoppedLooping(s) ==
    /\ pollers[s].kind = "analysis" /\ pollers[s].pc = "write_stopped"
    /\ store' = update_analysis(store, pollers[s].key, StoppedFields)
    /\ hist' = Observe(hist, store')
    /\ pollers' = [pollers EXCEPT ![s].pc = "poll"]
    /\ UNCHANGED termCalls
    /\ lastCall' = NoCall
    /\ PollFrame

\* poll_session: status == "stopped"
PollWriteStopped(s) ==
    /\ pollers[s].kind = "analysis" /\ pollers[s].pc = "write_stopped"
    /\ store' = update_analysis(store, pollers[s].key, StoppedFields)
    /\ hist' = Observe(hist, store')
    /\ pollers' = [pollers EXCEPT ![s].pc = "done", ![s].exit = "stopped"]
    /\ UNCHANGED termCalls
    /\ lastCall' = NoCall
    /\ PollFrame

\* the values the except clause of poll_session stores
ExceptFields == [status |-> "failed", plan |-> PyStr(ErrorText)]

\* the except clause returning without its write
PollExceptSilent(s) ==
    /\ pollers[s].kind = "analysis" /\ pollers[s].pc = "except"
    /\ UNCHANGED <<store, hist>>
    /\ pollers' = [pollers EXCEPT ![s].pc = "done", ![s].exit = "except"]
    /\ UNCHANGED termCalls
    /\ lastCall' = NoCall
    /\ PollFrame

\* poll_session: except Exception
PollExcept(s) ==
    /\ pollers[s].kind = "analysis" /\ pollers[s].pc = "except"
    /\ store' = update_analysis(store, pollers[s].key, ExceptFields)
    /\ hist' = Observe(hist, store')
    /\ pollers' = [pollers EXCEPT ![s].pc = "done", ![s].exit = "except"]
    /\ UNCHANGED termCalls
    /\ lastCall' = NoCall
    /\ PollFrame

\* poll_fix_session: update_analysis(fix_status="analyzing")
FixPollStart(s) ==
    /\ pollers[s].kind = "fix" /\ pollers[s].pc = "start"
    /\ store' = update_analysis(store, pollers[s].key, [fix_status |-> "analyzing"])
    /\ hist' = Observe(hist, store')
    /\ pollers' = [pollers EXCEPT ![s].pc = "poll"]
    /\ UNCHANGED termCalls
    /\ lastCall' = NoCall
    /\ PollFrame

\* poll_fix_session: get_session raises RequestException, the loop continues
FixPollFetchFail(s) ==
    /\ pollers[s].kind = "fix" /\ pollers[s].pc = "poll"
    /\ UNCHANGED <<store, hist, termCalls, pollers>>
    /\ lastCall' = [fn |-> "get_session", session |-> s, result |-> "error"]
    /\ PollFrame

\* poll_fix_session: get_session answers; the reply is inspected and parsed
FixPollFetch(s, session) ==
    /\ pollers[s].kind = "fix" /\ pollers[s].pc = "poll"
    /\ pollers' =
         IF session.status_enum \in {"blocked", "finished"}
         THEN [pollers EXCEPT
                 ![s].pr_url = parse_fix_response(session_messages(session)),
                 ![s].pc = "write_completed"]
         ELSE IF session.status_enum = "stopped"
         THEN [pollers EXCEPT ![s].pc = "write_stopped"]
         ELSE pollers
    /\ UNCHANGED <<store, hist, termCalls>>
    /\ lastCall' = [fn |-> "get_session", session |-> s, result |-> session.status_enum]
    /\ PollFrame

\* the values poll_fix_session stores on blocked / finished
FixCompletedFields(pr_url) == [fix_status |-> "completed", pr_url |-> pr_url]

\* poll_fix_session: update_analysis(fix_status="completed", pr_url=pr_url)
FixPollWriteCompleted(s) ==
    LET f == FixCompletedFields(pollers[s].pr_url) IN
    /\ pollers[s].kind = "fix" /\ pollers[s].pc = "write_completed"
    /\ IF BindableAll(f)
       THEN /\ store' = update_analysis(store, pollers[s].key, f)
            /\ pollers' = [pollers EXCEPT ![s].pc = "terminate", ![s].plan = PyNone,
                                              ![s].confidence = PyNone, ![s].pr_url = PyNone]
       ELSE /\ store' = store
            /\ pollers' = [pollers EXCEPT ![s].pc = "except", ![s].plan = PyNone,
                                              ![s].confidence = PyNone, ![s].pr_url = PyNone]
    /\ hist' = Observe(hist, store')
    /\ UNCHANGED termCalls
    /\ lastCall' = NoCall
    /\ PollFrame

\* poll_fix_session: terminate_session(session_id); return
FixPollTerminate(s) ==
    /\ pollers[s].kind = "fix" /\ pollers[s].pc = "terminate"
    /\ termCalls' = [termCalls EXCEPT ![s] = @ + 1]
    /\ pollers' = [pollers EXCEPT ![s].pc = "done", ![s].exit = "completed"]
    /\ UNCHANGED <<store, hist>>
    /\ \E result \in {"ok", "error"} :
          lastCall' = [fn |-> "terminate_session", session |-> s, result |-> result]
    /\ PollFrame

\* poll_fix_session: status == "stopped"
FixPollWriteStopped(s) ==
    /\ pollers[s].kind = "fix" /\ pollers[s].pc = "write_stopped"
    /\ store' = update_analysis(store, pollers[s].key, [fix_status |-> "failed"])
    /\ hist' = Observe(hist, store')
    /\ pollers' = [pollers EXCEPT ![s].pc = "done", ![s].exit = "stopped"]
    /\ UNCHANGED termCalls
    /\ lastCall' = NoCall
    /\ PollFrame

\* poll_fix_session: except Exception
FixPollExcept(s) ==
    /\ pollers[s].kind = "fix" /\ pollers[s].pc = "except"
    /\ store' = update_analysis(store, pollers[s].key, [fix_status |-> "failed"])
    /\ hist' = Observe(hist, store')
    /\ pollers' = [pollers EXCEPT ![s].pc = "done", ![s].exit = "except"]
    /\ UNCHANGED termCalls
    /\ lastCall' = NoCall
    /\ PollFrame

\* ------------------------------------------------------ lifecycle behaviour
\* init_db on an empty database, no request and no poller yet
Init ==
    /\ store = {}
    /\ nextId = 1
    /\ nextSession = 0
    /\ termCalls = [s \in Sessions |-> 0]
    /\ calls = [c \in Slots |-> IdleCall]
    /\ lastResp = NoResp
    /\ pollers = [s \in Sessions |-> NoPoller]
    /\ hist = [k \in Keys |-> NoHist]
    /\ lastCall = NoCall
    /\ pMsgs = <<>>
    /\ pOut = NoOut
    /\ pPc = "off"

Next ==
    \/ \E c \in Slots, k \in Keys : AnalyzeRead(c, k)
    \/ \E c \in Slots : AnalyzeCreate(c)
    \/ \E c \in Slots : AnalyzeCreateFail(c)
    \/ \E c \in Slots : AnalyzeUpsertSelect(c)
    \/ \E c \in Slots : AnalyzeUpsertWrite(c)
    \/ \E c \in Slots, k \in Keys : FixRead(c, k)
    \/ \E c \in Slots : FixCreate(c)
    \/ \E c \in Slots : FixCreateFail(c)
    \/ \E c \in Slots : FixWrite(c)
    \/ \E c \in Slots, k \in Keys : RemoveRead(c, k)
    \/ \E c \in Slots : RemoveDelete(c)
    \/ \E k \in Keys : StatusRead(k)
    \/ \E k \in Keys : FixStatusRead(k)
    \/ \E s \in Sessions : PollStart(s)
    \/ \E s \in Sessions : PollFetchFail(s)
    \/ \E s \in Sessions, session \in SessionReplies : PollFetch(s, session)
    \/ \E s \in Sessions : PollWriteCompleted(s)
    \/ \E s \in Sessions : PollTerminate(s)
    \/ \E s \in Sessions : PollWriteStopped(s)
    \/ \E s \in Sessions : PollExcept(s)
    \/ \E s \in Sessions : FixPollStart(s)
    \/ \E s \in Sessions : FixPollFetchFail(s)
    \/ \E s \in Sessions, session \in SessionReplies : FixPollFetch(s, session)
    \/ \E s \in Sessions : FixPollWriteCompleted(s)
    \/ \E s \in Sessions : FixPollTerminate(s)
    \/ \E s \in Sessions : FixPollWriteStopped(s)
    \/ \E s \in Sessions : FixPollExcept(s)

Spec == Init /\ [][Next]_vars

\* ---------------------------------------------------- scheduled behaviour
\* the steps poller s takes by itself once its thread runs: the statements of
\* poll_session / poll_fix_session other than the wait for get_session
PollerStep(s) ==
    \/ PollStart(s) \/ PollWriteCompleted(s) \/ PollTerminate(s)
    \/ PollWriteStopped(s) \/ PollExcept(s)
    \/ FixPollStart(s) \/ FixPollWriteCompleted(s) \/ FixPollTerminate(s)
    \/ FixPollWriteStopped(s) \/ FixPollExcept(s)

\* the behaviour with the requests served one at a time
LiveNext ==
    \/ \E c \in LiveSlots, k \in Keys : AnalyzeRead(c, k)
    \/ \E c \in LiveSlots : AnalyzeCreate(c)
    \/ \E c \in LiveSlots : AnalyzeCreateFail(c)
    \/ \E c \in LiveSlots : AnalyzeUpsertSelect(c)
    \/ \E c \in LiveSlots : AnalyzeUpsertWrite(c)
    \/ \E c \in LiveSlots, k \in Keys : FixRead(c, k)
    \/ \E c \in LiveSlots : FixCreate(c)
    \/ \E c \in LiveSlots : FixCreateFail(c)
    \/ \E c \in LiveSlots : FixWrite(c)
    \/ \E c \in LiveSlots, k \in Keys : RemoveRead(c, k)
    \/ \E c \in LiveSlots : RemoveDelete(c)
    \/ \E k \in Keys : StatusRead(k)
    \/ \E k \in Keys : FixStatusRead(k)
    \/ \E s \in Sessions : PollStart(s)
    \/ \E s \in Sessions : PollFetchFail(s)
    \/ \E s \in Sessions, session \in SessionReplies : PollFetch(s, session)
    \/ \E s \in Sessions : PollWriteCompleted(s)
    \/ \E s \in Sessions : PollTerminate(s)
    \/ \E s \in Sessions : PollWriteStopped(s)
    \/ \E s \in Sessions : PollExcept(s)
    \/ \E s \in Sessions : FixPollStart(s)
    \/ \E s \in Sessions : FixPollFetchFail(s)
    \/ \E s \in Sessions, session \in SessionReplies : FixPollFetch(s, session)
    \/ \E s \in Sessions : FixPollWriteCompleted(s)
    \/ \E s \in Sessions : FixPollTerminate(s)
    \/ \E s \in Sessions : FixPollWriteStopped(s)
    \/ \E s \in Sessions : FixPollExcept(s)

\* every started thread keeps being scheduled
LiveSpec == Init /\ [][LiveNext]_vars /\ \A s \in Sessions : WF_vars(PollerStep(s))

\* ----------------------------------------------------- restarted behaviour
\* The database file outlives the process: init_db creates the table only if
\* it does not exist, so the service may start on the records of an earlier
\* run, whose sessions are not among those this run creates.
OldSession == MaxSessions + 1
OldFixSession == MaxSessions + 2

\* a record an earlier run has left behind: its analysis has ended, its fix
\* was never started or has ended
PersistedRows ==
    {SetFields(NewRow(1, k),
               [session_id |-> OldSession, devin_url |-> OldSession, status |-> "completed",
                plan |-> PyStr(<<Word("do X")>>), confidence_score |-> PyInt(7)]) :
        k \in Keys}
    \cup
    {SetFields(NewRow(1, k),
               [session_id |-> OldSession, devin_url |-> OldSession, status |-> "completed",
                plan |-> PyStr(<<Word("do X")>>), confidence_score |-> PyInt(7),
                fix_session_id |-> OldFixSession, fix_devin_url |-> OldFixSession,
                fix_status |-> fst, pr_url |-> u]) :
        k \in Keys,
        fst \in {"completed", "failed"},
        u \in {PyNone, PyStr(<<Word("https://github.com/o/r/pull/5")>>)}}

\* create_app on an empty database or on one record of an earlier run
RestartInit ==
    /\ store \in {{}} \cup {{r} : r \in PersistedRows}
    /\ nextId = IF store = {} THEN 1 ELSE 2
    /\ nextSession = 0
    /\ termCalls = [s \in Sessions |-> 0]
    /\ calls = [c \in Slots |-> IdleCall]
    /\ lastResp = NoResp
    /\ pollers = [s \in Sessions |-> NoPoller]
    /\ hist = [k \in Keys |-> NoHist]
    /\ lastCall = NoCall
    /\ pMsgs = <<>>
    /\ pOut = NoOut
    /\ pPc = "off"

RestartSpec == RestartInit /\ [][LiveNext]_vars

\* -------------------------------------------------------- parser behaviour
\* the parsers applied to one transcript
ParseInit ==
    /\ store = {}
    /\ nextId = 1
    /\ nextSession = 0
    /\ termCalls = [s \in Sessions |-> 0]
    /\ calls = [c \in Slots |-> IdleCall]
    /\ lastResp = NoResp
    /\ pollers = [s \in Sessions |-> NoPoller]
    /\ hist = [k \in Keys |-> NoHist]
    /\ lastCall = NoCall
    /\ pMsgs \in Transcripts
    /\ pOut = NoOut
    /\ pPc = "input"

Parse ==
    /\ pPc = "input"
    /\ pOut' = [text       |-> IF pMsgs = <<>> THEN <<>> ELSE devin_text(pMsgs),
                plan       |-> parse_devin_response(pMsgs).plan,
                confidence |-> parse_devin_response(pMsgs).confidence,
                pr_url     |-> parse_fix_response(pMsgs)]
    /\ pPc' = "parsed"
    /\ UNCHANGED <<store, nextId, nextSession, termCalls, calls, lastResp, pollers, hist,
                   lastCall, pMsgs>>

ParseNext == Parse

ParseSpec == ParseInit /\ [][ParseNext]_vars

\* ================================================================== claims
Row(k)      == get_analysis(store, k)
RowAfter(k) == get_analysis(store', k)
HasRow(k)      == RowsOf(store, k) # {}
HasRowAfter(k) == RowsOf(store', k) # {}

\* a handler that created no session answered 202 in this step: the early
\* return of analyze / fix_issue
EarlyReturn(op, k) ==
    /\ lastResp'.op = op /\ lastResp'.key = k
    /\ lastResp'.code = 202 /\ ~lastResp'.created

\* a handler took its lookup in this step and went on to create a session
WentOn(op, k) ==
    \E c \in Slots : /\ calls[c].pc = "idle" /\ calls'[c].pc = "create"
                     /\ calls'[c].op = op /\ calls'[c].key = k

\* C1: an analyze call that reads the key's record while its status is
\* pending or analyzing does not go on to create a session; it answers with
\* the stored session id and status, and the step creates no session, writes
\* nothing to the store and starts no poller; the key has exactly one record.
C1_InFlightStartIsNoOp ==
    [][\A k \in Keys :
         (HasRow(k) /\ Row(k).status \in {"pending", "analyzing"}) =>
            /\ ~WentOn("analyze", k)
            /\ EarlyReturn("analyze", k) =>
                 /\ lastResp'.session_id = Row(k).session_id
                 /\ lastResp'.status = Row(k).status
                 /\ store' = store
                 /\ pollers' = pollers
                 /\ nextSession' = nextSession
                 /\ Cardinality(RowsOf(store', k)) = 1]_vars

\* one session was created, its poller has moved the record to analyzing, and
\* a second analyze call was answered with that session
C1_Witness ==
    /\ lastResp.op = "analyze" /\ lastResp.code = 202 /\ ~lastResp.created
    /\ lastResp.status = "analyzing" /\ lastResp.session_id = 1
    /\ nextSession = 1
    /\ Cardinality(store) = 1

\* C2: when fix_issue has created a session and answers 202, the store holds
\* a record for the key with fix_status pending and fix_session_id the
\* returned id, and get_fix_status does not answer not_found.
C2_FixStartStoresRecord ==
    [][\A k \in Keys :
         (lastResp'.op = "fix" /\ lastResp'.key = k /\ lastResp'.code = 202
            /\ lastResp'.created) =>
            /\ HasRowAfter(k)
            /\ RowAfter(k).fix_status = "pending"
            /\ RowAfter(k).fix_session_id = lastResp'.session_id
            /\ get_fix_status(store', k).status # "not_found"]_vars

\* C3: when an analysis poller that saw blocked or finished exits, and no
\* start or delete touched its key after the start that launched it, the
\* statuses stored for the key were pending, analyzing, completed in that
\* order; and a completed record always has a plan.
C3_PendingAnalyzingCompleted ==
    [][/\ \A s \in Sessions :
            (/\ pollers[s].kind = "analysis"
             /\ pollers[s].pc # "done" /\ pollers'[s].pc = "done"
             /\ pollers'[s].exit \in {"completed", "except"}
             /\ hist'[pollers[s].key].sid = s) =>
               hist'[pollers[s].key].seq = <<"pending", "analyzing", "completed">>
       /\ \A r \in store' : r.status = "completed" => r.plan # PyNone]_vars

\* C4: a record has a confidence score only while its status is completed.
C4_ConfidenceOnlyWhenCompleted ==
    \A r \in store : r.confidence_score # PyNone => r.status = "completed"

\* C5: a stored status (analysis or fix) never moves backwards or from one
\* terminal value to the other, except in the step in which a start call that
\* created a session writes pending with that session's id.
Rank(st) ==
    CASE st = NULL        -> 0
      [] st = "pending"   -> 1
      [] st = "analyzing" -> 2
      [] OTHER            -> 3
Backward(a, b) == Rank(b) < Rank(a) \/ (Rank(a) = 3 /\ Rank(b) = 3 /\ a # b)
StartWrote(op, k) ==
    /\ lastResp'.op = op /\ lastResp'.key = k
    /\ lastResp'.code = 202 /\ lastResp'.created
C5_StatusOnlyMovesForward ==
    [][\A k \in Keys :
         (HasRow(k) /\ HasRowAfter(k)) =>
            /\ Backward(Row(k).status, RowAfter(k).status) =>
                 /\ StartWrote("analyze", k)
                 /\ RowAfter(k).status = "pending"
                 /\ RowAfter(k).session_id = lastResp'.session_id
            /\ Backward(Row(k).fix_status, RowAfter(k).fix_status) =>
                 /\ StartWrote("fix", k)
                 /\ RowAfter(k).fix_status = "pending"
                 /\ RowAfter(k).fix_session_id = lastResp'.session_id]_vars

\* C6: remove_analysis on a key without a record answers 404 and leaves the
\* store alone, and only then; its DELETE leaves no record for the key; a
\* record appears for a key only in the step in which analyze stores a new
\* session; while there is none both status reads answer not_found.
C6_DeleteThenNotFound ==
    [][\A k \in Keys :
         /\ (lastResp'.op = "remove" /\ lastResp'.key = k /\ lastResp'.code = 404)
              => (~HasRow(k) /\ store' = store)
         /\ (\E c \in Slots : calls[c].pc = "idle" /\ calls'[c].pc = "delete"
                              /\ calls'[c].key = k) => HasRow(k)
         /\ (lastResp'.op = "remove" /\ lastResp'.key = k /\ lastResp'.code = 204)
              => ~HasRowAfter(k)
         /\ (~HasRow(k) /\ HasRowAfter(k)) => StartWrote("analyze", k)
         /\ (~HasRow(k) /\ lastResp'.key = k /\ lastResp'.op \in {"status", "fix_status"})
              => lastResp'.status = "not_found"]_vars

\* the record was deleted in the step just taken while a poller started for
\* the key is still running
C6_Witness ==
    /\ lastResp.op = "remove" /\ lastResp.code = 204
    /\ ~HasRow(lastResp.key)
    /\ \E s \in Sessions : pollers[s].key = lastResp.key /\ pollers[s].pc \in {"start", "poll"}

\* C7: a handler that leaves the create step without a session answers 500,
\* and that step changes neither the store nor the pollers nor the sessions.
C7_CreateFailureLeavesStore ==
    [][\A c \in Slots :
         (calls[c].pc = "create" /\ calls'[c].pc = "idle") =>
            /\ lastResp'.op = calls[c].op /\ lastResp'.key = calls[c].key
            /\ lastResp'.code = 500
            /\ store' = store
            /\ pollers' = pollers
            /\ nextSession' = nextSession]_vars

\* create_session failed for an analyze call on a key that has a record
C7_Witness ==
    /\ lastResp.op = "analyze" /\ lastResp.code = 500 /\ ~lastResp.created
    /\ HasRow(lastResp.key)

\* C8: at most one row per key.
C8_OneRecordPerKey ==
    \A k \in Keys : Cardinality(RowsOf(store, k)) <= 1

\* two analyze calls both took the SELECT of the upsert before either
\* inserted: the second INSERT was refused
C8_Witness ==
    /\ lastResp.op = "analyze" /\ lastResp.code = 500 /\ lastResp.created
    /\ Cardinality(RowsOf(store, lastResp.key)) = 1

\* the confidence the claim expects for a reply text of one character group
C9_Expected(text) ==
    IF text # <<>> /\ text[1].tok = "object" /\ text[1].conf.t = "int"
    THEN PyInt(Min(10, Max(1, text[1].conf.n)))
    ELSE PyNone

\* C9: the confidence parsed from a reply is min(10, max(1, c)) when the reply
\* is a JSON object whose confidence_score is an integer c and null otherwise;
\* it is always null or within 1..10.
C9_ConfidenceClamped ==
    pPc = "parsed" =>
       /\ (Len(pMsgs) = 1 /\ Len(pMsgs[1].message) <= 1)
            => pOut.confidence = C9_Expected(pMsgs[1].message)
       /\ pOut.confidence = PyNone
            \/ (pOut.confidence.t = "int" /\ pOut.confidence.n \in 1..10)

\* the messages of the agent
AgentIdx(msgs) == {i \in 1..Len(msgs) : msgs[i].type = "devin"}
LastAgent(msgs) == CHOOSE i \in AgentIdx(msgs) : \A j \in AgentIdx(msgs) : j <= i

\* C10: with an agent message in the transcript the text parsed is that of the
\* most recent agent message, and nothing results when it has no text; without
\* one the last message is used; an empty transcript gives nothing.
C10_LastAgentMessageChosen ==
    pPc = "parsed" =>
       IF pMsgs = <<>>
       THEN pOut.plan = PyNone /\ pOut.confidence = PyNone /\ pOut.pr_url = PyNone
       ELSE IF AgentIdx(pMsgs) # {}
       THEN /\ pOut.text = pMsgs[LastAgent(pMsgs)].message
            /\ pMsgs[LastAgent(pMsgs)].message = <<>>
                 => (pOut.plan = PyNone /\ pOut.pr_url = PyNone)
       ELSE pOut.text = pMsgs[Len(pMsgs)].message

\* the pollers of one lifecycle of a key that have started and not returned
Alive(s) == pollers[s].pc \notin {"none", "done"}
AlivePollers(kind, k) ==
    {s \in Sessions : Alive(s) /\ pollers[s].kind = kind /\ pollers[s].key = k}

\* C11: when the requests are served one at a time, so that no start call
\* does its in-flight read while another one is between its read and its
\* pending write, at most one poller per key and lifecycle is alive, whatever
\* deletes and remote outcomes happen in between.
C11_OnePollerUnlessStartsOverlap ==
    \A k \in Keys : \A kind \in {"analysis", "fix"} :
        Cardinality(AlivePollers(kind, k)) <= 1

\* the lifecycle column a poller writes
StatusField(s) == IF pollers[s].kind = "analysis" THEN "status" ELSE "fix_status"
\* the step just taken is the return of poller s
Exits(s) == pollers[s].pc # "done" /\ pollers'[s].pc = "done"
\* every record of the poller's key holds st in the poller's lifecycle column
\* after the step
Holds(s, st) == \A r \in RowsOf(store', pollers[s].key) : r[StatusField(s)] = st

\* C12: a poller that is in its except clause does nothing but the FAILED
\* write and returns with it; every return of a poller is either a FAILED
\* write (stopped or except) or the terminate call that follows the COMPLETED
\* write, and the terminate call is reached only by the step that wrote
\* COMPLETED: no poller returns without a terminal write.
C12_ExitsAfterTerminalWrite ==
    [][\A s \in Sessions :
         /\ pollers[s].pc = "except" =>
               \/ pollers'[s] = pollers[s]
               \/ Exits(s) /\ pollers'[s].exit = "except" /\ Holds(s, "failed")
         /\ Exits(s) =>
               \/ pollers[s].pc = "terminate" /\ pollers'[s].exit = "completed"
                    /\ store' = store
               \/ pollers[s].pc \in {"write_stopped", "except"} /\ Holds(s, "failed")
         /\ (pollers[s].pc # "terminate" /\ pollers'[s].pc = "terminate") =>
               pollers[s].pc = "write_completed" /\ Holds(s, "completed")]_vars

\* the COMPLETED write of a poller raised, the except clause has stored
\* FAILED with its message in the record of the poller's session and the
\* poller has returned
C12_Witness ==
    \E s \in Sessions :
        /\ pollers[s].kind = "analysis" /\ pollers[s].exit = "except"
        /\ HasRow(pollers[s].key)
        /\ Row(pollers[s].key).session_id = s
        /\ Row(pollers[s].key).status = "failed"
        /\ Row(pollers[s].key).plan = PyStr(ErrorText)

\* C13: when a poller returns from its except clause, having stored FAILED
\* for a failure inside the loop, terminate_session has been called for its
\* session.
C13_FailedRunTerminatesSession ==
    [][\A s \in Sessions :
         (Exits(s) /\ pollers'[s].exit = "except") => termCalls'[s] >= 1]_vars

\* get_session answered poller s in the step just taken with one of sts
Fetched(s, sts) ==
    /\ lastCall'.fn = "get_session" /\ lastCall'.session = s
    /\ lastCall'.result \in sts

\* C14: a poller that is answered blocked or finished goes to its COMPLETED
\* write and from there to terminate_session; terminate_session is called
\* only there, once, and whether it succeeds or fails the step leaves the
\* store alone and the poller returns; a poller answered stopped returns
\* with its FAILED write and without a terminate_session call.
C14_TerminateExactlyWhenCompleted ==
    [][\A s \in Sessions :
         /\ Fetched(s, {"blocked", "finished"}) => pollers'[s].pc = "write_completed"
         /\ (pollers[s].pc = "write_completed" /\ pollers'[s].pc # "write_completed")
               => pollers'[s].pc = "terminate" /\ Holds(s, "completed")
         /\ termCalls'[s] # termCalls[s] =>
               /\ pollers[s].pc = "terminate"
               /\ termCalls[s] = 0 /\ termCalls'[s] = 1
               /\ store' = store
               /\ Exits(s) /\ pollers'[s].exit = "completed"
         /\ Fetched(s, {"stopped"}) => pollers'[s].pc = "write_stopped"
         /\ (pollers[s].pc = "write_stopped" /\ pollers'[s].pc # "write_stopped")
               => Exits(s) /\ Holds(s, "failed") /\ termCalls'[s] = 0]_vars

\* C15: a get_session call that raises leaves the store, the terminate calls
\* and every poller as they were: the poller that made the call is still at
\* the head of its loop, where the next thing it does is fetch again, so this
\* holds after any number of failures in a row.
C15_FetchFailureIsTolerated ==
    [][\A s \in Sessions :
         Fetched(s, {"error"}) =>
            /\ store' = store
            /\ termCalls' = termCalls
            /\ pollers' = pollers
            /\ pollers'[s].pc = "poll" /\ pollers'[s].exit = "none"]_vars

\* get_session has just failed for the poller of the record's session and
\* the record is analyzing
C15_Witness ==
    /\ lastCall.fn = "get_session" /\ lastCall.result = "error"
    /\ \E k \in Keys :
          /\ HasRow(k) /\ Row(k).session_id = lastCall.session
          /\ Row(k).status = "analyzing"
          /\ pollers[lastCall.session].pc = "poll"

\* the session a record names for the lifecycle of the given kind
SessionOf(r, kind) == IF kind = "analysis" THEN r.session_id ELSE r.fix_session_id
StatusOf(r, kind)  == IF kind = "analysis" THEN r.status ELSE r.fix_status

\* a record shows analyzing for a session only once that session's poller has
\* made its first write
AnalyzingAfterOwnWrite ==
    \A r \in store : \A kind \in {"analysis", "fix"} :
        (StatusOf(r, kind) = "analyzing" /\ SessionOf(r, kind) # NoSession)
           => pollers[SessionOf(r, kind)].pc # "start"

\* the writes of one poller: analyzing first, then at most one terminal
\* write, then none
WritesInOrder ==
    \A s \in Sessions :
        /\ (pollers[s].pc = "start" /\ pollers'[s] # pollers[s])
              => pollers'[s].pc = "poll" /\ Holds(s, "analyzing")
        /\ (pollers[s].pc \in {"poll", "terminate", "done"} /\ pollers'[s] # pollers[s])
              => store' = store
        /\ (pollers[s].pc \in {"write_completed", "write_stopped", "except"}
               /\ pollers'[s] # pollers[s] /\ store' # store)
              => pollers'[s].pc \in {"terminate", "done"}

\* C16: the first write of every poller sets its lifecycle to analyzing, it
\* makes at most one terminal write and no write after it; and what is read
\* for a freshly started lifecycle is analyzing only after the ANALYZING
\* write of that lifecycle's own poller.
C16_AnalyzingFirstTerminalLast ==
    []AnalyzingAfterOwnWrite /\ [][WritesInOrder]_vars

\* poller s has not been answered blocked, finished or stopped: it is before
\* its first write or at the head of its loop
Looping(s) == pollers[s].pc \in {"start", "poll"}

\* C17: a poller stays in its loop until a get_session call answers it with
\* blocked, finished or stopped: until then no step makes it return, no step
\* of a request handler (start, delete, status) changes it, and its only write
\* is the ANALYZING one, however many fetches fail.
C17_PollsUntilTerminalStatus ==
    [][\A s \in Sessions :
         Looping(s) =>
            /\ ~Exits(s)
            /\ pollers'[s].pc \notin {"start", "poll"}
                  => Fetched(s, {"blocked", "finished", "stopped"})
            /\ (pollers'[s].pc \in {"start", "poll"} /\ pollers'[s] # pollers[s])
                  => /\ pollers[s].pc = "start" /\ pollers'[s].pc = "poll"
                     /\ Holds(s, "analyzing")
            /\ calls' # calls => pollers'[s] = pollers[s]]_vars

\* the record of a polling session was deleted, a later start call has
\* created another session, and get_session has just answered working: the
\* poller goes on polling
C17_Witness ==
    /\ lastCall.fn = "get_session" /\ lastCall.result = "working"
    /\ pollers[lastCall.session].pc = "poll"
    /\ ~HasRow(pollers[lastCall.session].key)
    /\ nextSession = MaxSessions

\* get_session answers poller s with blocked, finished or stopped
TerminalFetch(s) ==
    \E session \in {r \in SessionReplies : r.status_enum \in {"blocked", "finished", "stopped"}} :
        PollFetch(s, session) \/ FixPollFetch(s, session)

\* from some point on the remote sessions report a terminal status and
\* fetches keep succeeding: a poller waiting in its loop gets such an answer
RemoteEnds == \A s \in Sessions : WF_vars(TerminalFetch(s))

\* a step that launches no poller and deletes no record
NoStartNoDelete ==
    /\ \A s \in Sessions : pollers[s].pc = "none" => pollers'[s].pc = "none"
    /\ \A k \in Keys : HasRow(k) => HasRowAfter(k)

\* every record is terminal in each lifecycle that was started for it
AllTerminal ==
    \A r \in store : /\ r.status \in {"completed", "failed"}
                      /\ r.fix_status \in {NULL, "completed", "failed"}

\* C18: with the threads scheduled and the remote sessions ending, every
\* started poller returns; and if from some point on no start call launches
\* a poller and no record is deleted, the statuses of the records that exist
\* are eventually completed or failed for good.
C18_PollerEventuallyExits ==
    RemoteEnds =>
       /\ \A s \in Sessions : Alive(s) ~> (pollers[s].pc = "done")
       /\ (<>[][NoStartNoDelete]_vars) => <>[]AllTerminal

\* a poller has returned after its completed write and terminate call, and
\* the record of its session is completed
C18_Witness ==
    \E s \in Sessions :
        /\ pollers[s].pc = "done" /\ pollers[s].exit = "completed"
        /\ lastCall.fn = "terminate_session" /\ lastCall.session = s
        /\ HasRow(pollers[s].key)
        /\ Row(pollers[s].key).session_id = s
        /\ Row(pollers[s].key).status = "completed"

\* who takes the step: a start call or a poller of the given lifecycle
StepOfAnalysis ==
    \/ \E c \in Slots : calls'[c] # calls[c] /\ calls[c].op = "analyze"
    \/ \E s \in Sessions : pollers'[s] # pollers[s] /\ pollers[s].kind = "analysis"
StepOfFix ==
    \/ \E c \in Slots : calls'[c] # calls[c] /\ calls[c].op = "fix"
    \/ \E s \in Sessions : pollers'[s] # pollers[s] /\ pollers[s].kind = "fix"

SameOn(r, q, fields) == \A f \in fields : r[f] = q[f]

\* C19: a step of analyze or of an analysis poller leaves the four fix
\* columns of an existing record as they were; a step of fix_issue or of a fix
\* poller leaves the five analysis columns as they were; and as long as the
\* record exists, no step changes its key, its id or created_at.
C19_LifecyclesDoNotInterfere ==
    [][\A k \in Keys :
         (HasRow(k) /\ HasRowAfter(k)) =>
            /\ StepOfAnalysis =>
                  SameOn(Row(k), RowAfter(k),
                         {"fix_session_id", "fix_devin_url", "fix_status", "pr_url"})
            /\ StepOfFix =>
                  SameOn(Row(k), RowAfter(k),
                         {"session_id", "devin_url", "status", "plan", "confidence_score"})
            /\ SameOn(Row(k), RowAfter(k), {"key", "id", "created_at"})]_vars

\* analyze has just stored a new session in a record that carries the
\* pull request of a finished fix
C19_Witness ==
    /\ lastResp.op = "analyze" /\ lastResp.code = 202 /\ lastResp.created
    /\ HasRow(lastResp.key)
    /\ Row(lastResp.key).session_id = lastResp.session_id
    /\ Row(lastResp.key).status = "pending"
    /\ Row(lastResp.key).fix_status = "completed"
    /\ Row(lastResp.key).pr_url # PyNone

\* C20: a poller changes a record only if the record names the poller's own
\* session for the poller's lifecycle; so a terminal status, plan, confidence
\* and pull request url in a record come from the poller of the session the
\* record names, never from the poller of an earlier session of the key.
C20_OnlyOwnSessionWrites ==
    [][\A s \in Sessions :
         (pollers[s].kind \in {"analysis", "fix"} /\ pollers'[s] # pollers[s]
            /\ store' # store) =>
            \A r \in RowsOf(store, pollers[s].key) :
                SessionOf(r, pollers[s].kind) = s]_vars

\* the lifecycle a start call belongs to
KindOf(op) == IF op = "analyze" THEN "analysis" ELSE "fix"

\* C21: when analyze or fix_issue, having created a session, ends, a poller
\* has been launched for that session and the key's record names the session
\* for the call's lifecycle.
C21_CreatedSessionIsPolledAndStored ==
    [][\A c \in Slots :
         (calls[c].pc \in {"upsert_write", "fix_write"} /\ calls'[c].pc = "idle") =>
            /\ pollers'[calls[c].sid].kind = KindOf(calls[c].op)
            /\ pollers'[calls[c].sid].pc = "start"
            /\ \E r \in RowsOf(store', calls[c].key) :
                  SessionOf(r, KindOf(calls[c].op)) = calls[c].sid]_vars

====
